---- MODULE Spec2Model ----
(***************************************************************************)
(* Model of MCPServerManager                                               *)
(* (litellm/proxy/_experimental/mcp_server/mcp_server_manager.py).         *)
(*                                                                         *)
(* Strings are sequences of one-character strings.  A Python dict is a     *)
(* sequence of [k, v] entries in insertion order.  Python None is NoneVal. *)
(* A coroutine is a record with its position pc; one action is the code it *)
(* runs between two suspension points.  Every action records itself in     *)
(* last: the call, its argument, the exception raised and the callTool     *)
(* dispatched.                                                             *)
(*                                                                         *)
(* SpecRegistry is the registry store under every load, upsert and remove; *)
(* Spec adds the catalog aggregator and the call router over the upstreams *)
(* a, b (static) and A (dynamic).                                          *)
(***************************************************************************)
EXTENDS Naturals, Sequences, FiniteSets, TLC

VARIABLES
    config_mcp_servers,                     \* self.config_mcp_servers (static partition)
    registry,                               \* self.registry (dynamic partition)
    tool_name_to_mcp_server_name_mapping,   \* self.tool_name_to_mcp_server_name_mapping
    list_task,                              \* one list_tools() coroutine
    warmup_task,                            \* the task created by initialize_tool_name_to_mcp_server_name_mapping
    single_task,                            \* one get_tools_for_server() coroutine
    call_task,                              \* one call_tool() coroutine, followed through its await
    clients,                                \* the MCPClient handles connected and not yet disconnected
    last                                    \* the last call made on the manager and how it ended

vars == <<config_mcp_servers, registry, tool_name_to_mcp_server_name_mapping,
          list_task, warmup_task, single_task, call_task, clients, last>>

----------------------------------------------------------------------------
(* Bounds of the model *)

\* longest allow-list the authorization oracle returns
MaxAllowed == 2
\* most entries of one load_servers_from_config call
MaxConfig == 2
\* most records held by the dynamic partition
MaxRegistry == 2

----------------------------------------------------------------------------
(* Python values *)

NoneVal == <<"None">>

\* bool(s) of an Optional[str]
Truthy(s) == s # NoneVal /\ s # <<>>

\* a or b
PyOr(a, b) == IF Truthy(a) THEN a ELSE b

\* Optional[MCPServer]: None
NoServer ==
    [server_id |-> NoneVal, name |-> NoneVal, url |-> NoneVal, transport |-> NoneVal,
     spec_version |-> NoneVal, auth_type |-> NoneVal]

RECURSIVE Join(_, _)
\* sep.join(parts)
Join(parts, sep) ==
    IF Len(parts) = 0 THEN <<>>
    ELSE IF Len(parts) = 1 THEN parts[1]
    ELSE parts[1] \o sep \o Join(Tail(parts), sep)

\* the set of elements of a list
Range(s) == {s[i] : i \in 1..Len(s)}

RECURSIVE Flatten(_)
\* the concatenation of a list of lists
Flatten(ss) == IF Len(ss) = 0 THEN <<>> ELSE Head(ss) \o Flatten(Tail(ss))

\* all lists over S of length at most n
SeqsUpTo(S, n) == UNION {[1..k -> S] : k \in 0..n}

----------------------------------------------------------------------------
(* Python dict: insertion-ordered list of [k, v] *)

DictKeys(d) == [i \in 1..Len(d) |-> d[i].k]

DictValues(d) == [i \in 1..Len(d) |-> d[i].v]

DictHas(d, key) == \E i \in 1..Len(d) : d[i].k = key

DictGet(d, key) == d[CHOOSE i \in 1..Len(d) : d[i].k = key].v

\* d[key] = val: an existing key keeps its position
DictSet(d, key, val) ==
    IF DictHas(d, key)
    THEN [i \in 1..Len(d) |-> IF d[i].k = key THEN [k |-> key, v |-> val] ELSE d[i]]
    ELSE Append(d, [k |-> key, v |-> val])

\* del d[key], for a key that is present
DictDel(d, key) == SelectSeq(d, LAMBDA e : e.k # key)

\* a | b: the keys of a in order, then the new keys of b; b's value on a shared key
DictUnion(a, b) ==
    [i \in 1..Len(a) |->
        IF DictHas(b, a[i].k) THEN [k |-> a[i].k, v |-> DictGet(b, a[i].k)] ELSE a[i]]
    \o SelectSeq(b, LAMBDA e : ~DictHas(a, e.k))

----------------------------------------------------------------------------
(* Name codec (litellm/proxy/_experimental/mcp_server/utils.py) *)

\* the composition marker of `<upstreamAlias>.<toolName>`
SEP == "."

Lower(c) == IF c = "A" THEN "a" ELSE IF c = "B" THEN "b" ELSE c

RECURSIVE StripLeft(_)
StripLeft(s) == IF Len(s) > 0 /\ Head(s) = " " THEN StripLeft(Tail(s)) ELSE s

RECURSIVE StripRight(_)
StripRight(s) ==
    IF Len(s) > 0 /\ s[Len(s)] = " " THEN StripRight(SubSeq(s, 1, Len(s) - 1)) ELSE s

\* normalize(alias): case-folding and trimming
normalize_server_name(server_name) ==
    LET t == StripRight(StripLeft(server_name))
    IN  [i \in 1..Len(t) |-> Lower(t[i])]

\* isQualified(name): the name carries the composition marker
is_tool_name_prefixed(tool_name) == \E i \in 1..Len(tool_name) : tool_name[i] = SEP

\* compose(rawName, upstreamAlias)
add_server_prefix_to_tool_name(tool_name, server_name) ==
    server_name \o <<SEP>> \o tool_name

\* decompose(name) -> <<rawName, claimedAlias>>; the alias is "" when absent
get_server_name_prefix_tool_mcp(name) ==
    IF is_tool_name_prefixed(name)
    THEN LET p == CHOOSE i \in 1..Len(name) :
                     name[i] = SEP /\ \A j \in 1..(i - 1) : name[j] # SEP
         IN  <<SubSeq(name, p + 1, Len(name)), SubSeq(name, 1, p - 1)>>
    ELSE <<name, <<>>>>

\* validate_mcp_server_name raises for an empty alias or one using the marker
validate_mcp_server_name(server_name) ==
    Truthy(server_name) /\ ~is_tool_name_prefixed(server_name)

----------------------------------------------------------------------------
(* Identity generator *)

\* hashlib.sha256(s).hexdigest()[:32], taken as injective on the strings hashed here
Sha256Hex32(s) == <<"#">> \o s

_generate_stable_server_id(server_name, url, transport, spec_version, auth_type) ==
    Sha256Hex32(Join(<<server_name, url, transport, spec_version, PyOr(auth_type, <<>>)>>,
                     <<"|">>))

----------------------------------------------------------------------------
(* Inputs *)

\* MCPTransport.http, the default of a config entry without "transport"
TransportHttp == <<"h">>
\* MCPTransport.sse
TransportSse == <<"e">>
\* MCPSpecVersion.mar_2025, the default of a config entry without "spec_version"
SpecVersionMar2025 == <<"v">>

\* MCPAuth.api_key, an auth_type that is present
AuthApiKey == <<"k">>

\* the entries a config file may hold: server_name -> {url, auth_type}
ConfigEntries ==
    { [server_name |-> <<"a">>, url |-> <<"u">>, auth_type |-> NoneVal],
      [server_name |-> <<"a">>, url |-> <<"u">>, auth_type |-> AuthApiKey],
      [server_name |-> <<"b">>, url |-> <<"u">>, auth_type |-> NoneVal],
      [server_name |-> <<"a", ".", "b">>, url |-> <<"u">>, auth_type |-> NoneVal] }

\* a config mapping: its entries in order, no server_name twice
Configs ==
    {c \in SeqsUpTo(ConfigEntries, MaxConfig) :
        \A i, j \in 1..Len(c) : i # j => c[i].server_name # c[j].server_name}

\* load_servers_from_config leaving auth_type out of the parameters it hashes
ConfigId_without_auth(e) ==
    _generate_stable_server_id(e.server_name, PyOr(e.url, <<>>), TransportHttp,
                               SpecVersionMar2025, NoneVal)

\* the id load_servers_from_config gives the config entry e
ConfigId(e) ==
    _generate_stable_server_id(e.server_name, PyOr(e.url, <<>>), TransportHttp,
                               SpecVersionMar2025, e.auth_type)

IdA == ConfigId([server_name |-> <<"a">>, url |-> <<"u">>, auth_type |-> NoneVal])
IdX == <<"x">>
IdZ == <<"z">>

\* LiteLLM_MCPServerTable rows handed to add_update_server
DbServers ==
    { [server_id |-> IdX, alias |-> <<"A">>, url |-> <<"w">>, transport |-> TransportSse,
       spec_version |-> SpecVersionMar2025, auth_type |-> NoneVal],
      [server_id |-> IdX, alias |-> <<"b">>, url |-> <<"w">>, transport |-> TransportSse,
       spec_version |-> SpecVersionMar2025, auth_type |-> NoneVal],
      [server_id |-> IdZ, alias |-> NoneVal, url |-> <<"w">>, transport |-> TransportSse,
       spec_version |-> SpecVersionMar2025, auth_type |-> NoneVal],
      [server_id |-> IdA, alias |-> <<"A">>, url |-> <<"w">>, transport |-> TransportSse,
       spec_version |-> SpecVersionMar2025, auth_type |-> NoneVal] }

\* LiteLLM_MCPServerTable rows handed to remove_server (alias and server_id are read)
RemoveArgs ==
    [alias : {<<"A">>, NoneVal, IdX, IdA}, server_id : {IdX, IdA, <<"q">>}]

----------------------------------------------------------------------------
(* Registry store *)

\* get_registry(): self.config_mcp_servers | self.registry
get_registry == DictUnion(config_mcp_servers, registry)

\* get_mcp_server_by_id: the first value whose server_id is the id, or None
get_mcp_server_by_id(server_id) ==
    LET vals == DictValues(get_registry)
        hits == {i \in 1..Len(vals) : vals[i].server_id = server_id}
    IN  IF hits = {} THEN NoServer
        ELSE vals[CHOOSE i \in hits : \A j \in hits : i <= j]

\* the MCPServer built from a config entry
ConfigServer(e) ==
    [server_id |-> ConfigId(e), name |-> e.server_name, url |-> PyOr(e.url, <<>>),
     transport |-> TransportHttp, spec_version |-> SpecVersionMar2025,
     auth_type |-> e.auth_type]

\* the MCPServer built from a LiteLLM_MCPServerTable row
DbServer(m) ==
    [server_id |-> m.server_id, name |-> PyOr(m.alias, m.server_id), url |-> m.url,
     transport |-> m.transport, spec_version |-> m.spec_version,
     auth_type |-> m.auth_type]

RECURSIVE LoadLoop(_, _)
\* the for loop of load_servers_from_config over the entries c, from the dict d:
\* <<the dict when the loop ends, whether validate_mcp_server_name raised>>
LoadLoop(c, d) ==
    IF Len(c) = 0 THEN <<d, FALSE>>
    ELSE IF ~validate_mcp_server_name(Head(c).server_name) THEN <<d, TRUE>>
    ELSE LoadLoop(Tail(c), DictSet(d, ConfigId(Head(c)), ConfigServer(Head(c))))

NoCall == <<>>

Last(op, arg, exc, calls) == [op |-> op, arg |-> arg, exc |-> exc, calls |-> calls]

IdleWarmup == [pc |-> "none", servers |-> <<>>, i |-> 0, server |-> NoServer, got |-> <<>>]

\* asyncio.create_task(self._initialize_tool_name_to_mcp_server_name_mapping()):
\* the task has not run yet
NewWarmup == [pc |-> "created", servers |-> <<>>, i |-> 0, server |-> NoServer, got |-> <<>>]

\* load_servers_from_config(c), called with or without a running event loop
load_servers_from_config(c, loop) ==
    LET r == LoadLoop(c, config_mcp_servers)
    IN  /\ loop => warmup_task.pc = "none"
        /\ config_mcp_servers' = r[1]
        /\ warmup_task' = IF ~r[2] /\ loop THEN NewWarmup ELSE warmup_task
        /\ last' = [op |-> "load_servers_from_config", arg |-> c,
                    exc |-> IF r[2] THEN "InvalidConfiguration" ELSE "none",
                    calls |-> NoCall, loop |-> loop]
        /\ UNCHANGED <<registry, tool_name_to_mcp_server_name_mapping, list_task,
                       single_task, call_task, clients>>

\* remove_server deleting by server_id without looking the key up first
remove_server_unchecked(m) ==
    /\ IF DictHas(registry, m.alias)
       THEN /\ registry' = DictDel(registry, m.alias)
            /\ last' = Last("remove_server", m, "none", NoCall)
       ELSE IF DictHas(registry, m.server_id)
       THEN /\ registry' = DictDel(registry, m.server_id)
            /\ last' = Last("remove_server", m, "none", NoCall)
       ELSE /\ registry' = registry
            /\ last' = Last("remove_server", m, "KeyError", NoCall)
    /\ UNCHANGED <<config_mcp_servers, tool_name_to_mcp_server_name_mapping,
                   list_task, warmup_task, single_task, call_task, clients>>

\* remove_server(m)
remove_server(m) ==
    /\ IF DictHas(get_registry, m.alias)
       THEN IF DictHas(registry, m.alias)
            THEN /\ registry' = DictDel(registry, m.alias)
                 /\ last' = Last("remove_server", m, "none", NoCall)
            ELSE /\ registry' = registry
                 /\ last' = Last("remove_server", m, "KeyError", NoCall)
       ELSE IF DictHas(get_registry, m.server_id)
       THEN IF DictHas(registry, m.server_id)
            THEN /\ registry' = DictDel(registry, m.server_id)
                 /\ last' = Last("remove_server", m, "none", NoCall)
            ELSE /\ registry' = registry
                 /\ last' = Last("remove_server", m, "KeyError", NoCall)
       ELSE /\ registry' = registry
            /\ last' = Last("remove_server", m, "none", NoCall)
    /\ UNCHANGED <<config_mcp_servers, tool_name_to_mcp_server_name_mapping,
                   list_task, warmup_task, single_task, call_task, clients>>

\* add_update_server writing the row whether or not its id is registered
add_update_server_overwrite(m) ==
    /\ DictHas(get_registry, m.server_id) \/ Len(registry) < MaxRegistry
    /\ registry' = DictSet(registry, m.server_id, DbServer(m))
    /\ last' = Last("add_update_server", m, "none", NoCall)
    /\ UNCHANGED <<config_mcp_servers, tool_name_to_mcp_server_name_mapping,
                   list_task, warmup_task, single_task, call_task, clients>>

\* add_update_server(m)
add_update_server(m) ==
    /\ DictHas(get_registry, m.server_id) \/ Len(registry) < MaxRegistry
    /\ registry' = IF ~DictHas(get_registry, m.server_id)
                   THEN DictSet(registry, m.server_id, DbServer(m))
                   ELSE registry
    /\ last' = Last("add_update_server", m, "none", NoCall)
    /\ UNCHANGED <<config_mcp_servers, tool_name_to_mcp_server_name_mapping,
                   list_task, warmup_task, single_task, call_task, clients>>

----------------------------------------------------------------------------
(* Upstreams *)

\* the raw tool names upstreams report; one carries the composition marker
RawNames == {<<"r">>, <<"s">>, <<"b", ".", "s">>}

\* what each upstream serves: its tools, in its order
ToolsOf(server) ==
    IF server.name = <<"a">> THEN <<<<"r">>, <<"s">>>>
    ELSE IF server.name = <<"b">> THEN <<<<"s">>>>
    ELSE <<<<"b", ".", "s">>>>

\* how connect and listTools of the upstream end: a fault, or its tools
OutcomesOf(server) ==
    {[status |-> "connect_error", tools |-> <<>>], [status |-> "list_error", tools |-> <<>>],
     [status |-> "ok", tools |-> ToolsOf(server)]}

\* what the authorization oracle returns
OracleLists == SeqsUpTo({IdA, IdX}, MaxAllowed)

\* the names callers route
RouteNames ==
    { <<"r">>,
      add_server_prefix_to_tool_name(<<"s">>, <<"a">>),
      add_server_prefix_to_tool_name(<<"r">>, <<"b">>),
      add_server_prefix_to_tool_name(<<"s">>, <<"b">>),
      add_server_prefix_to_tool_name(<<"b", ".", "s">>, <<"A">>) }

----------------------------------------------------------------------------
(* Upstream clients *)

\* _create_mcp_client(server): the handle the coroutine op builds for server; every
\* call builds a new MCPClient, which only the coroutine that built it holds
MCPClient(op, server) == [op |-> op, server_id |-> server.server_id]

\* `async with client` is entered: connect() is under way or has given the handle
client_connect(cs, c) == cs \cup {c}

\* `async with client` is left, or client.disconnect() returns: the handle is
\* released; releasing a handle that is not held does nothing
client_disconnect(cs, c) == cs \ {c}

\* bound: the handles left behind by cancelled connects that are followed
MaxAbandoned == 1

\* how the callTool of a connected upstream ends
CallOutcomes == {"call_error", "ok"}

\* how the connect of an upstream ends
ConnectOutcomes == {"connect_error", "ok"}

----------------------------------------------------------------------------
(* Catalog aggregator *)

\* the prefixed names of the tools an upstream reported, in its order
PrefixedTools(tools, server) ==
    [i \in 1..Len(tools) |-> add_server_prefix_to_tool_name(tools[i], server.name)]

\* lines 333-347: both the raw and the prefixed name of every tool point at server.name
MappingUpdate(map, tools, server) ==
    LET new == Range(tools) \cup Range(PrefixedTools(tools, server))
    IN  [n \in (DOMAIN map) \cup new |-> IF n \in new THEN server.name ELSE map[n]]

\* _get_tools_from_server(server) when connect and listTools end as o, from the mapping
\* map: the list returned, the exception raised, the mapping left
_get_tools_from_server(server, o, map) ==
    IF o.status = "ok"
    THEN [ret |-> PrefixedTools(o.tools, server), exc |-> "none",
          mapping |-> MappingUpdate(map, o.tools, server)]
    ELSE [ret |-> <<>>, exc |-> "none", mapping |-> map]

\* get_allowed_mcp_servers returning every registered id whatever the oracle returns
get_allowed_mcp_servers_all(oracle) == DictKeys(get_registry)

\* get_allowed_mcp_servers when the oracle returns the list oracle
get_allowed_mcp_servers(oracle) ==
    IF Len(oracle) > 0 THEN oracle ELSE DictKeys(get_registry)

\* the next position of allowed, from position from on, whose id resolves now
\* (lines 236-240); Len(allowed) + 1 when there is none
NextResolved(allowed, from) ==
    LET hits == {j \in from..Len(allowed) : get_mcp_server_by_id(allowed[j]) # NoServer}
    IN  IF hits = {} THEN Len(allowed) + 1
        ELSE CHOOSE j \in hits : \A k \in hits : j <= k

IdleList ==
    [pc |-> "idle", oracle |-> <<>>, allowed |-> <<>>, i |-> 0, server |-> NoServer,
     got |-> <<>>, contacted |-> <<>>, log |-> <<>>, result |-> <<>>]

\* the for loop of list_tools run from position from up to its next suspension
\* (the connect of the next upstream that resolves) or to the return
ListAdvance(t, from) ==
    LET j == NextResolved(t.allowed, from)
    IN  IF j > Len(t.allowed)
        THEN [t EXCEPT !.pc = "returned", !.i = j, !.server = NoServer]
        ELSE [t EXCEPT !.pc = "listing", !.i = j,
                       !.server = get_mcp_server_by_id(t.allowed[j]),
                       !.contacted = Append(t.contacted, t.allowed[j])]

\* lines 316-323: a list_tools coroutine that has gone on to the connect of an
\* upstream has built a client for it and entered `async with client`
ListClient(cs, t) ==
    IF t.pc = "listing" THEN client_connect(cs, MCPClient("list_tools", t.server)) ELSE cs

\* list_tools: the oracle answers, the allow-list is fixed, the loop starts
list_tools_start(oracle) ==
    /\ list_task.pc \in {"idle", "returned", "cancelled"}
    /\ list_task' = ListAdvance([IdleList EXCEPT !.oracle = oracle,
                                    !.allowed = get_allowed_mcp_servers(oracle)], 1)
    /\ clients' = ListClient(clients, list_task')
    /\ last' = Last("list_tools", oracle, "none", NoCall)
    /\ UNCHANGED <<config_mcp_servers, registry, tool_name_to_mcp_server_name_mapping,
                   warmup_task, single_task, call_task>>

\* list_tools: connect and listTools of the current upstream end as o (lines 323-349)
list_tools_receive(o) ==
    /\ list_task.pc = "listing"
    /\ LET r == _get_tools_from_server(list_task.server, o,
                                       tool_name_to_mcp_server_name_mapping)
       IN  /\ tool_name_to_mcp_server_name_mapping' = r.mapping
           /\ list_task' = [list_task EXCEPT
                               !.pc = "disconnect",
                               !.got = <<[ret |-> r.ret, exc |-> r.exc]>>,
                               !.log = Append(list_task.log,
                                   [pos |-> list_task.i, server |-> list_task.server,
                                    outcome |-> o])]
    /\ clients' = client_disconnect(clients, MCPClient("list_tools", list_task.server))
    /\ last' = Last("list_tools_receive", o, "none", NoCall)
    /\ UNCHANGED <<config_mcp_servers, registry, warmup_task, single_task, call_task>>

\* list_tools without the try/except of lines 241-250: a failed upstream ends the loop
list_tools_next_abort ==
    /\ list_task.pc = "disconnect"
    /\ LET g == list_task.got[1]
           failed == list_task.log[Len(list_task.log)].outcome.status # "ok"
           t == [list_task EXCEPT !.got = <<>>, !.result = list_task.result \o g.ret]
       IN  list_task' = IF failed THEN [t EXCEPT !.pc = "returned", !.server = NoServer]
                        ELSE ListAdvance(t, list_task.i + 1)
    /\ clients' = ListClient(client_disconnect(clients,
                                  MCPClient("list_tools", list_task.server)), list_task')
    /\ last' = Last("list_tools_next", <<>>, "none", NoCall)
    /\ UNCHANGED <<config_mcp_servers, registry, tool_name_to_mcp_server_name_mapping,
                   warmup_task, single_task, call_task>>

\* list_tools putting the tools of each upstream in front of those collected so far
list_tools_next_prepend ==
    /\ list_task.pc = "disconnect"
    /\ LET g == list_task.got[1]
           t == [list_task EXCEPT !.got = <<>>, !.result = g.ret \o list_task.result]
       IN  list_task' = ListAdvance(t, list_task.i + 1)
    /\ clients' = ListClient(client_disconnect(clients,
                                  MCPClient("list_tools", list_task.server)), list_task')
    /\ last' = Last("list_tools_next", <<>>, "none", NoCall)
    /\ UNCHANGED <<config_mcp_servers, registry, tool_name_to_mcp_server_name_mapping,
                   warmup_task, single_task, call_task>>

\* list_tools: the disconnect of line 362 ends; lines 246-250, then the loop goes on
list_tools_next ==
    /\ list_task.pc = "disconnect"
    /\ LET g == list_task.got[1]
           t == [list_task EXCEPT
                    !.got = <<>>,
                    !.result = IF g.exc = "none" THEN list_task.result \o g.ret
                               ELSE list_task.result]
       IN  list_task' = ListAdvance(t, list_task.i + 1)
    /\ clients' = ListClient(client_disconnect(clients,
                                  MCPClient("list_tools", list_task.server)), list_task')
    /\ last' = Last("list_tools_next", <<>>, "none", NoCall)
    /\ UNCHANGED <<config_mcp_servers, registry, tool_name_to_mcp_server_name_mapping,
                   warmup_task, single_task, call_task>>

\* the task running list_tools is cancelled with CancelledError caught as an
\* Exception: line 356 turns it into [] and the loop of list_tools goes on
list_tools_cancel_swallowed ==
    /\ list_task.pc \in {"listing", "disconnect"}
    /\ list_task' = [list_task EXCEPT !.pc = "disconnect",
                                      !.got = <<[ret |-> <<>>, exc |-> "none"]>>]
    /\ last' = Last("list_tools_cancel", <<>>, "none", NoCall)
    /\ UNCHANGED <<config_mcp_servers, registry, tool_name_to_mcp_server_name_mapping,
                   warmup_task, single_task, call_task, clients>>

\* the task running list_tools is cancelled: CancelledError is raised at its await.
\* At line 329 it is re-raised (350-352), passes `except Exception` (356: it is a
\* BaseException) and the finally awaits disconnect; at line 362 it passes
\* `except Exception: pass`, then the `except Exception` of list_tools (247), and
\* reaches the caller
list_tools_cancel ==
    /\ list_task.pc \in {"listing", "disconnect"}
    /\ list_task' = [list_task EXCEPT
                        !.pc = IF list_task.pc = "listing" THEN "cancelling" ELSE "cancelled",
                        !.got = <<>>]
    /\ last' = Last("list_tools_cancel", <<>>,
                    IF list_task.pc = "listing" THEN "none" ELSE "CancelledError", NoCall)
    /\ UNCHANGED <<config_mcp_servers, registry, tool_name_to_mcp_server_name_mapping,
                   warmup_task, single_task, call_task, clients>>

\* cancelled while `await client.list_tools()` (line 324) was pending: CancelledError
\* leaves `async with client` through __aexit__, whose disconnect returns; the handle
\* is released and the coroutine goes on to the disconnect of the finally (line 362)
list_tools_cancel_exit ==
    /\ list_task.pc = "cancelling"
    /\ list_task' = [list_task EXCEPT !.pc = "cancel_disconnect"]
    /\ clients' = client_disconnect(clients, MCPClient("list_tools", list_task.server))
    /\ last' = Last("list_tools_cancel_exit", <<>>, "none", NoCall)
    /\ UNCHANGED <<config_mcp_servers, registry, tool_name_to_mcp_server_name_mapping,
                   warmup_task, single_task, call_task>>

\* the disconnect of the finally (line 362) returns under cancellation: after
\* __aexit__ when list_tools() was pending, or at once when the connect of
\* `async with client` was (__aexit__ does not run then); CancelledError leaves
\* _get_tools_from_server and list_tools
list_tools_cancelled ==
    /\ list_task.pc \in {"cancelling", "cancel_disconnect"}
    /\ list_task' = [list_task EXCEPT !.pc = "cancelled"]
    /\ clients' = client_disconnect(clients, MCPClient("list_tools", list_task.server))
    /\ last' = Last("list_tools_cancelled", <<>>, "CancelledError", NoCall)
    /\ UNCHANGED <<config_mcp_servers, registry, tool_name_to_mcp_server_name_mapping,
                   warmup_task, single_task, call_task>>

----------------------------------------------------------------------------
(* Single-upstream listing *)

IdleSingle ==
    [pc |-> "idle", server_id |-> NoneVal, server |-> NoServer,
     outcome |-> [status |-> "none", tools |-> <<>>], got |-> <<>>, result |-> <<>>,
     exc |-> "none"]

\* get_tools_for_server(server_id) up to the connect of the upstream, or to the
\* return of [] for an id that does not resolve
get_tools_for_server(server_id) ==
    /\ single_task.pc \in {"idle", "returned"}
    /\ LET server == get_mcp_server_by_id(server_id)
       IN  /\ single_task' =
                  IF server = NoServer
                  THEN [IdleSingle EXCEPT !.pc = "returned", !.server_id = server_id]
                  ELSE [IdleSingle EXCEPT !.pc = "listing", !.server_id = server_id,
                                          !.server = server]
           /\ clients' =
                  IF server = NoServer THEN clients
                  ELSE client_connect(clients, MCPClient("get_tools_for_server", server))
    /\ last' = Last("get_tools_for_server", server_id, "none", NoCall)
    /\ UNCHANGED <<config_mcp_servers, registry, tool_name_to_mcp_server_name_mapping,
                   list_task, warmup_task, call_task>>

\* get_tools_for_server: connect and listTools of the upstream end as o
get_tools_for_server_receive(o) ==
    /\ single_task.pc = "listing"
    /\ LET r == _get_tools_from_server(single_task.server, o,
                                       tool_name_to_mcp_server_name_mapping)
       IN  /\ tool_name_to_mcp_server_name_mapping' = r.mapping
           /\ single_task' = [single_task EXCEPT
                                 !.pc = "disconnect", !.outcome = o,
                                 !.got = <<[ret |-> r.ret, exc |-> r.exc]>>]
    /\ clients' = client_disconnect(clients,
                                    MCPClient("get_tools_for_server", single_task.server))
    /\ last' = Last("get_tools_for_server_receive", o, "none", NoCall)
    /\ UNCHANGED <<config_mcp_servers, registry, list_task, warmup_task, call_task>>

\* get_tools_for_server: the disconnect of line 362 ends and line 217 returns what
\* _get_tools_from_server returned, or raises what it raised
get_tools_for_server_return ==
    /\ single_task.pc = "disconnect"
    /\ LET g == single_task.got[1]
       IN  /\ single_task' = [single_task EXCEPT !.pc = "returned", !.got = <<>>,
                                                 !.result = g.ret, !.exc = g.exc]
           /\ last' = Last("get_tools_for_server_return", single_task.server_id, g.exc,
                           NoCall)
    /\ clients' = client_disconnect(clients,
                                    MCPClient("get_tools_for_server", single_task.server))
    /\ UNCHANGED <<config_mcp_servers, registry, tool_name_to_mcp_server_name_mapping,
                   list_task, warmup_task, call_task>>

----------------------------------------------------------------------------
(* Warm-up *)

\* the for loop of _initialize_tool_name_to_mcp_server_name_mapping from position from
WarmupAdvance(t, from) ==
    IF from > Len(t.servers) THEN IdleWarmup
    ELSE [t EXCEPT !.pc = "listing", !.i = from, !.server = t.servers[from]]

\* lines 316-323, for the warm-up task
WarmupClient(cs, t) ==
    IF t.pc = "listing" THEN client_connect(cs, MCPClient("warmup", t.server)) ELSE cs

\* the created task runs: get_registry().values() is taken once
warmup_start ==
    /\ warmup_task.pc = "created"
    /\ warmup_task' = WarmupAdvance([warmup_task EXCEPT
                                        !.servers = DictValues(get_registry)], 1)
    /\ clients' = WarmupClient(clients, warmup_task')
    /\ last' = Last("warmup_start", <<>>, "none", NoCall)
    /\ UNCHANGED <<config_mcp_servers, registry, tool_name_to_mcp_server_name_mapping,
                   list_task, single_task, call_task>>

\* warm-up over a _get_tools_from_server that raises the fault of the upstream: the
\* exception ends the task
warmup_receive_raising(o) ==
    /\ warmup_task.pc = "listing"
    /\ LET r == _get_tools_from_server(warmup_task.server, o,
                                       tool_name_to_mcp_server_name_mapping)
       IN  /\ tool_name_to_mcp_server_name_mapping' = r.mapping
           /\ warmup_task' = IF o.status = "ok"
                             THEN [warmup_task EXCEPT !.pc = "disconnect", !.got = r.ret]
                             ELSE IdleWarmup
    /\ clients' = client_disconnect(clients, MCPClient("warmup", warmup_task.server))
    /\ last' = Last("warmup_receive", o, "none", NoCall)
    /\ UNCHANGED <<config_mcp_servers, registry, list_task, single_task, call_task>>

\* warm-up: connect and listTools of the current upstream end as o
warmup_receive(o) ==
    /\ warmup_task.pc = "listing"
    /\ LET r == _get_tools_from_server(warmup_task.server, o,
                                       tool_name_to_mcp_server_name_mapping)
       IN  /\ tool_name_to_mcp_server_name_mapping' = r.mapping
           /\ warmup_task' = [warmup_task EXCEPT !.pc = "disconnect", !.got = r.ret]
    /\ clients' = client_disconnect(clients, MCPClient("warmup", warmup_task.server))
    /\ last' = Last("warmup_receive", o, "none", NoCall)
    /\ UNCHANGED <<config_mcp_servers, registry, list_task, single_task, call_task>>

\* lines 436-441: the original and the prefixed name of every tool returned
WarmupMapping(map, tools, server) ==
    LET new == Range(tools) \cup {get_server_name_prefix_tool_mcp(tools[i])[1] :
                                     i \in 1..Len(tools)}
    IN  [n \in (DOMAIN map) \cup new |-> IF n \in new THEN server.name ELSE map[n]]

\* warm-up: the disconnect ends; lines 436-441, then the loop goes on
warmup_next ==
    /\ warmup_task.pc = "disconnect"
    /\ tool_name_to_mcp_server_name_mapping' =
           WarmupMapping(tool_name_to_mcp_server_name_mapping, warmup_task.got,
                         warmup_task.server)
    /\ warmup_task' = WarmupAdvance([warmup_task EXCEPT !.got = <<>>], warmup_task.i + 1)
    /\ clients' = WarmupClient(client_disconnect(clients,
                                    MCPClient("warmup", warmup_task.server)), warmup_task')
    /\ last' = Last("warmup_next", <<>>, "none", NoCall)
    /\ UNCHANGED <<config_mcp_servers, registry, list_task, single_task, call_task>>

----------------------------------------------------------------------------
(* Call router *)

\* the first server of the union whose normalized name is that of server_name, or None
FirstServerNamed(server_name) ==
    LET vals == DictValues(get_registry)
        hits == {i \in 1..Len(vals) :
                    normalize_server_name(vals[i].name) = normalize_server_name(server_name)}
    IN  IF hits = {} THEN NoServer
        ELSE vals[CHOOSE i \in hits : \A j \in hits : i <= j]

\* _get_mcp_server_from_tool_name returning what the index entry resolves to, with
\* the prefix tried only for a name the index does not hold
_get_mcp_server_from_tool_name_by_index(tool_name) ==
    LET map == tool_name_to_mcp_server_name_mapping
    IN  IF tool_name \in DOMAIN map THEN FirstServerNamed(map[tool_name])
        ELSE IF is_tool_name_prefixed(tool_name)
        THEN FirstServerNamed(get_server_name_prefix_tool_mcp(tool_name)[2])
        ELSE NoServer

\* _get_mcp_server_from_tool_name(tool_name)
_get_mcp_server_from_tool_name(tool_name) ==
    LET map == tool_name_to_mcp_server_name_mapping
        byIndex == IF tool_name \in DOMAIN map THEN FirstServerNamed(map[tool_name])
                   ELSE NoServer
    IN  IF byIndex # NoServer THEN byIndex
        ELSE IF is_tool_name_prefixed(tool_name)
        THEN FirstServerNamed(get_server_name_prefix_tool_mcp(tool_name)[2])
        ELSE NoServer

IdleCall ==
    [pc |-> "idle", server |-> NoServer, name |-> <<>>, given |-> <<>>,
     user_api_key_auth |-> <<>>, sent |-> <<>>, outcome |-> "none"]

\* the resolution of call_tool asking get_allowed_mcp_servers(user_api_key_auth) and
\* refusing an upstream that is not on the caller's allow-list
call_tool_resolve_checked(name, user_api_key_auth) ==
    LET original_tool_name == get_server_name_prefix_tool_mcp(name)[1]
        server_name_from_prefix == get_server_name_prefix_tool_mcp(name)[2]
        found == _get_mcp_server_from_tool_name(name)
        mcp_server == IF found # NoServer /\ found.server_id \in
                                Range(get_allowed_mcp_servers(user_api_key_auth))
                      THEN found ELSE NoServer
    IN  IF mcp_server = NoServer
        THEN [exc |-> "ToolNotFound", server |-> NoServer, name |-> original_tool_name]
        ELSE IF /\ Truthy(server_name_from_prefix)
                /\ normalize_server_name(server_name_from_prefix)
                      # normalize_server_name(mcp_server.name)
        THEN [exc |-> "PrefixMismatch", server |-> NoServer, name |-> original_tool_name]
        ELSE [exc |-> "none", server |-> mcp_server, name |-> original_tool_name]

\* lines 385-396 of call_tool(name, arguments, user_api_key_auth, ...), for a caller
\* whose authorization context makes the oracle return the list user_api_key_auth:
\* the error raised, or the upstream to connect to and the original name to send.
\* The parameter is received and read nowhere in the body
call_tool_resolve(name, user_api_key_auth) ==
    LET original_tool_name == get_server_name_prefix_tool_mcp(name)[1]
        server_name_from_prefix == get_server_name_prefix_tool_mcp(name)[2]
        mcp_server == _get_mcp_server_from_tool_name(name)
    IN  IF mcp_server = NoServer
        THEN [exc |-> "ToolNotFound", server |-> NoServer, name |-> original_tool_name]
        ELSE IF /\ Truthy(server_name_from_prefix)
                /\ normalize_server_name(server_name_from_prefix)
                      # normalize_server_name(mcp_server.name)
        THEN [exc |-> "PrefixMismatch", server |-> NoServer, name |-> original_tool_name]
        ELSE [exc |-> "none", server |-> mcp_server, name |-> original_tool_name]

\* call_tool up to the connect of `async with client` (lines 385-402): a name that
\* does not resolve, or whose prefix names another upstream, raises at once;
\* otherwise a client is built and the coroutine is left at its first await, with
\* nothing sent yet
call_tool_start(name, user_api_key_auth) ==
    LET r == call_tool_resolve(name, user_api_key_auth)
    IN  /\ call_task.pc = "idle"
        /\ last' = [op |-> "call_tool", arg |-> name, exc |-> r.exc, calls |-> NoCall,
                    given |-> name, user_api_key_auth |-> user_api_key_auth,
                    sent |-> <<>>]
        /\ call_task' =
              IF r.exc # "none" THEN call_task
              ELSE [pc |-> "connecting", server |-> r.server, name |-> r.name,
                    given |-> name, user_api_key_auth |-> user_api_key_auth,
                    sent |-> <<>>, outcome |-> "none"]
        /\ clients' =
              IF r.exc # "none" THEN clients
              ELSE client_connect(clients, MCPClient("call_tool", r.server))
        /\ UNCHANGED <<config_mcp_servers, registry, tool_name_to_mcp_server_name_mapping,
                       list_task, warmup_task, single_task>>

\* what a step of the call_tool coroutine t leaves in last: the step, how the
\* upstream answered, the exception raised to the caller, the callTool sent in this
\* step, and the call it belongs to with all it has sent so far
CallLast(op, arg, exc, calls, t) ==
    [op |-> op, arg |-> arg, exc |-> exc, calls |-> calls, given |-> t.given,
     user_api_key_auth |-> t.user_api_key_auth, sent |-> t.sent \o calls]

\* call_tool sending the name it was given, prefix included, to the upstream
call_tool_connect_qualified(o) ==
    /\ call_task.pc = "connecting"
    /\ LET calls == IF o = "ok"
                    THEN <<[server |-> call_task.server, name |-> call_task.given]>>
                    ELSE NoCall
       IN  /\ call_task' = IF o = "ok"
                           THEN [call_task EXCEPT !.pc = "calling", !.sent = calls]
                           ELSE IdleCall
           /\ last' = CallLast("call_tool_connect", o,
                               IF o = "ok" THEN "none" ELSE "ConnectionError",
                               calls, call_task)
    /\ clients' = IF o = "ok" THEN clients
                  ELSE client_disconnect(clients, MCPClient("call_tool", call_task.server))
    /\ UNCHANGED <<config_mcp_servers, registry, tool_name_to_mcp_server_name_mapping,
                   list_task, warmup_task, single_task>>

\* call_tool: the connect of `async with client` (line 402) ends as o. A failed
\* connect raises out of __aenter__ and leaves no handle; otherwise lines 403-408 run
\* at once: callTool with the original name is sent on the handle and the coroutine
\* waits for its answer
call_tool_connect(o) ==
    /\ call_task.pc = "connecting"
    /\ LET calls == IF o = "ok"
                    THEN <<[server |-> call_task.server, name |-> call_task.name]>>
                    ELSE NoCall
       IN  /\ call_task' = IF o = "ok"
                           THEN [call_task EXCEPT !.pc = "calling", !.sent = calls]
                           ELSE IdleCall
           /\ last' = CallLast("call_tool_connect", o,
                               IF o = "ok" THEN "none" ELSE "ConnectionError",
                               calls, call_task)
    /\ clients' = IF o = "ok" THEN clients
                  ELSE client_disconnect(clients, MCPClient("call_tool", call_task.server))
    /\ UNCHANGED <<config_mcp_servers, registry, tool_name_to_mcp_server_name_mapping,
                   list_task, warmup_task, single_task>>

\* call_tool: `await client.call_tool` (line 408) ends as o: `async with client` is
\* left through __aexit__, which awaits disconnect with the handle still held
call_tool_receive(o) ==
    /\ call_task.pc = "calling"
    /\ call_task' = [call_task EXCEPT !.pc = "disconnect", !.outcome = o]
    /\ last' = CallLast("call_tool_receive", o, "none", NoCall, call_task)
    /\ UNCHANGED <<config_mcp_servers, registry, tool_name_to_mcp_server_name_mapping,
                   list_task, warmup_task, single_task, clients>>

\* call_tool: the disconnect of __aexit__ returns: the handle is released, the
\* result is returned or the fault of callTool raised as it is
call_tool_return ==
    /\ call_task.pc = "disconnect"
    /\ call_task' = IdleCall
    /\ clients' = client_disconnect(clients, MCPClient("call_tool", call_task.server))
    /\ last' = CallLast("call_tool_return", call_task.outcome,
                        IF call_task.outcome = "call_error" THEN "UpstreamProtocolError"
                        ELSE "none",
                        NoCall, call_task)
    /\ UNCHANGED <<config_mcp_servers, registry, tool_name_to_mcp_server_name_mapping,
                   list_task, warmup_task, single_task>>

\* the handles no coroutine holds any more and nothing has released
AbandonedClients(cs) == {c \in cs : "abandoned" \in DOMAIN c}

\* the handle c once its coroutine has ended without a disconnect that returned: it
\* stays, apart from the handles later calls build for the same upstream
Abandon(cs, c) ==
    (cs \ {c}) \cup {[op |-> c.op, server_id |-> c.server_id,
                       abandoned |-> Cardinality(AbandonedClients(cs)) + 1]}

\* the task running call_tool is cancelled while the connect of `async with client`
\* (line 402) is pending, or while the disconnect of __aexit__ is: CancelledError is
\* raised inside __aenter__ (__aexit__ does not run) or inside __aexit__, and
\* call_tool has no finally, so no disconnect that returns is made and the handle
\* stays as the interrupted operation left it
call_tool_cancel ==
    /\ call_task.pc \in {"connecting", "disconnect"}
    /\ Cardinality(AbandonedClients(clients)) < MaxAbandoned
    /\ call_task' = IdleCall
    /\ clients' = Abandon(clients, MCPClient("call_tool", call_task.server))
    /\ last' = CallLast("call_tool_cancel", <<>>, "CancelledError", NoCall, call_task)
    /\ UNCHANGED <<config_mcp_servers, registry, tool_name_to_mcp_server_name_mapping,
                   list_task, warmup_task, single_task>>

\* the task running call_tool is cancelled while `await client.call_tool` (line 408)
\* is pending, the callTool sent: CancelledError leaves `async with client` through
\* __aexit__, which awaits disconnect
call_tool_cancel_in_call ==
    /\ call_task.pc = "calling"
    /\ call_task' = [call_task EXCEPT !.pc = "cancelling"]
    /\ last' = CallLast("call_tool_cancel", <<>>, "none", NoCall, call_task)
    /\ UNCHANGED <<config_mcp_servers, registry, tool_name_to_mcp_server_name_mapping,
                   list_task, warmup_task, single_task, clients>>

\* the disconnect of __aexit__ returns under cancellation: the handle is released and
\* CancelledError reaches the caller of call_tool
call_tool_cancelled ==
    /\ call_task.pc = "cancelling"
    /\ call_task' = IdleCall
    /\ clients' = client_disconnect(clients, MCPClient("call_tool", call_task.server))
    /\ last' = CallLast("call_tool_cancelled", <<>>, "CancelledError", NoCall, call_task)
    /\ UNCHANGED <<config_mcp_servers, registry, tool_name_to_mcp_server_name_mapping,
                   list_task, warmup_task, single_task>>

----------------------------------------------------------------------------
(* Specification *)

Init ==
    /\ config_mcp_servers = <<>>
    /\ registry = <<>>
    /\ tool_name_to_mcp_server_name_mapping = <<>>
    /\ list_task = IdleList
    /\ warmup_task = IdleWarmup
    /\ single_task = IdleSingle
    /\ call_task = IdleCall
    /\ clients = {}
    /\ last = Last("init", <<>>, "none", NoCall)

\* the registry store alone: configuration loads, upserts and removes
NextRegistry ==
    \/ \E c \in Configs, loop \in BOOLEAN : load_servers_from_config(c, loop)
    \/ \E m \in DbServers : add_update_server(m)
    \/ \E m \in RemoveArgs : remove_server(m)

SpecRegistry == Init /\ [][NextRegistry]_vars

ListingConfigs ==
    {c \in Configs : /\ Len(c) = 1
                     /\ validate_mcp_server_name(c[1].server_name)
                     /\ c[1].auth_type = NoneVal}

ListingDbServers == {m \in DbServers : m.server_id = IdX /\ m.alias = <<"A">>}

ListingRemoveArgs == {m \in RemoveArgs : m.alias = NoneVal /\ m.server_id = IdX}

\* the registry store and the catalog aggregator
Next ==
    \/ \E c \in ListingConfigs : load_servers_from_config(c, FALSE)
    \/ \E m \in ListingDbServers : add_update_server(m)
    \/ \E m \in ListingRemoveArgs : remove_server(m)
    \/ \E oracle \in OracleLists : list_tools_start(oracle)
    \/ \E o \in OutcomesOf(list_task.server) : list_tools_receive(o)
    \/ list_tools_next

Spec == Init /\ [][Next]_vars

\* the static upstream b alone
TaskConfigs == {c \in ListingConfigs : c[1].server_name = <<"b">>}

\* the dynamic upstream x, under an alias of its own or under the alias of b
TaskDbServers == {m \in DbServers : m.server_id = IdX}

IdB == ConfigId([server_name |-> <<"b">>, url |-> <<"u">>, auth_type |-> NoneVal])

\* the coroutines of the manager at their suspension points: a listing that may be
\* cancelled, a single-upstream listing and a call, over the upstreams b and x
NextTasks ==
    \/ \E c \in TaskConfigs : load_servers_from_config(c, FALSE)
    \/ \E m \in TaskDbServers : add_update_server(m)
    \/ list_tools_start(<<>>)
    \/ \E o \in OutcomesOf(list_task.server) : list_tools_receive(o)
    \/ list_tools_next
    \/ list_tools_cancel
    \/ list_tools_cancel_exit
    \/ list_tools_cancelled
    \/ \E server_id \in {IdB, IdX} : get_tools_for_server(server_id)
    \/ \E o \in OutcomesOf(single_task.server) : get_tools_for_server_receive(o)
    \/ get_tools_for_server_return
    \/ \E name \in {add_server_prefix_to_tool_name(<<"s">>, <<"b">>)} :
          call_tool_start(name, <<>>)
    \/ \E o \in ConnectOutcomes : call_tool_connect(o)
    \/ \E o \in CallOutcomes : call_tool_receive(o)
    \/ call_tool_return
    \/ call_tool_cancel
    \/ call_tool_cancel_in_call
    \/ call_tool_cancelled

SpecTasks == Init /\ [][NextTasks]_vars

\* a config mapping of at most one entry, valid or not
WarmupConfigs ==
    {c \in Configs : Len(c) <= 1 /\ \A i \in 1..Len(c) : c[i].auth_type = NoneVal}

\* the registry store and the warm-up task that load_servers_from_config starts
NextWarmup ==
    \/ \E c \in WarmupConfigs, loop \in BOOLEAN : load_servers_from_config(c, loop)
    \/ \E m \in ListingDbServers : add_update_server(m)
    \/ \E m \in ListingRemoveArgs : remove_server(m)
    \/ warmup_start
    \/ \E o \in OutcomesOf(warmup_task.server) : warmup_receive(o)
    \/ warmup_next

SpecWarmup == Init /\ [][NextWarmup]_vars

\* the names routed while listings run: a qualified name of b, which is also a raw
\* name of the upstream A
InterleavedRouteNames == {add_server_prefix_to_tool_name(<<"s">>, <<"b">>)}

\* the warm-up task, a live list_tools and a call, each taken from one suspension
\* point to its next, over the static upstream b and the dynamic upstream A
NextInterleaved ==
    \/ \E c \in TaskConfigs : load_servers_from_config(c, TRUE)
    \/ \E m \in ListingDbServers : add_update_server(m)
    \/ warmup_start
    \/ \E o \in OutcomesOf(warmup_task.server) : warmup_receive(o)
    \/ warmup_next
    \/ list_tools_start(<<>>)
    \/ \E o \in OutcomesOf(list_task.server) : list_tools_receive(o)
    \/ list_tools_next
    \/ \E name \in InterleavedRouteNames : call_tool_start(name, <<>>)
    \/ \E o \in ConnectOutcomes : call_tool_connect(o)
    \/ \E o \in CallOutcomes : call_tool_receive(o)
    \/ call_tool_return

SpecInterleaved == Init /\ [][NextInterleaved]_vars

\* the registry store, a list_tools over the whole union that fills the index, and
\* the call router, each coroutine taken from one suspension point to its next
NextRoute ==
    \/ \E c \in ListingConfigs : load_servers_from_config(c, FALSE)
    \/ \E m \in ListingDbServers : add_update_server(m)
    \/ \E m \in ListingRemoveArgs : remove_server(m)
    \/ list_tools_start(<<>>)
    \/ \E o \in OutcomesOf(list_task.server) : list_tools_receive(o)
    \/ list_tools_next
    \/ \E name \in RouteNames : call_tool_start(name, <<>>)
    \/ \E o \in ConnectOutcomes : call_tool_connect(o)
    \/ \E o \in CallOutcomes : call_tool_receive(o)
    \/ call_tool_return

SpecRoute == Init /\ [][NextRoute]_vars

\* what the oracle returns for the callers that route: nothing, a alone, x alone
RouteAuths == {oracle \in OracleLists : Len(oracle) <= 1}

\* a qualified name of the static upstream a and one of the dynamic upstream A
AuthRouteNames ==
    { add_server_prefix_to_tool_name(<<"s">>, <<"a">>),
      add_server_prefix_to_tool_name(<<"b", ".", "s">>, <<"A">>) }

\* the static upstream a alone
AuthConfigs == {c \in ListingConfigs : c[1].server_name = <<"a">>}

\* the registry store, a list_tools that fills the index, and calls by callers of
\* different authorization contexts
NextAuthRoute ==
    \/ \E c \in AuthConfigs : load_servers_from_config(c, FALSE)
    \/ \E m \in ListingDbServers : add_update_server(m)
    \/ \E m \in ListingRemoveArgs : remove_server(m)
    \/ list_tools_start(<<>>)
    \/ \E o \in OutcomesOf(list_task.server) : list_tools_receive(o)
    \/ list_tools_next
    \/ \E name \in AuthRouteNames, user_api_key_auth \in RouteAuths :
          call_tool_start(name, user_api_key_auth)
    \/ \E o \in ConnectOutcomes : call_tool_connect(o)
    \/ \E o \in CallOutcomes : call_tool_receive(o)
    \/ call_tool_return

SpecAuthRoute == Init /\ [][NextAuthRoute]_vars

----------------------------------------------------------------------------
(* Registry store: properties *)

\* the state the registry operations and the aggregator share
store == <<config_mcp_servers, registry, tool_name_to_mcp_server_name_mapping>>

\* C4: whenever an id is a key of both partitions, union()[id] is the record of the
\* static partition.
StaticWinsTies ==
    \A i \in 1..Len(config_mcp_servers) :
        DictHas(registry, config_mcp_servers[i].k)
            => DictGet(get_registry, config_mcp_servers[i].k) = config_mcp_servers[i].v

\* C5: add_update_server of an id that is a key of the union changes neither partition
\* nor the index, whatever the other fields of the row; after any add_update_server the
\* id is a key of the union, so a second identical call is such a call.
UpsertNeverOverrides ==
    /\ [](last.op = "add_update_server" => DictHas(get_registry, last.arg.server_id))
    /\ [][(/\ last'.op = "add_update_server"
           /\ DictHas(get_registry, last'.arg.server_id)) => UNCHANGED store]_vars

\* C5 witness: a row was upserted whose id the dynamic partition holds with other fields
UpsertOfRegisteredId ==
    /\ last.op = "add_update_server"
    /\ DictHas(registry, last.arg.server_id)
    /\ DictGet(registry, last.arg.server_id) # DbServer(last.arg)

\* C6: remove_server deletes the dynamic record whose alias is the argument's alias or,
\* when no dynamic record has that alias, the one whose id is the argument's id: that
\* record is absent from the union afterwards.
RemoveByAliasThenId ==
    [][last'.op = "remove_server" =>
        LET m == last'.arg
            after == Range(DictValues(DictUnion(config_mcp_servers', registry')))
            byAlias == {e \in Range(registry) : Truthy(m.alias) /\ e.v.name = m.alias}
            byId == {e \in Range(registry) : e.v.server_id = m.server_id}
        IN  IF byAlias # {} THEN \E e \in byAlias : e.v \notin after
            ELSE \A e \in byId : e.v \notin after]_vars

\* C7: remove_server with an alias and an id that are keys of neither partition returns
\* normally and changes neither partition (nor the index), so that a second identical
\* call meets the same state and ends the same way.
RemoveMissIsNoOp ==
    [][(/\ last'.op = "remove_server"
        /\ ~DictHas(get_registry, last'.arg.alias)
        /\ ~DictHas(get_registry, last'.arg.server_id))
       => (last'.exc = "none" /\ UNCHANGED store)]_vars

\* C7 witness: a remove whose alias and id are never keys ended, with dynamic records held
RemoveMissed ==
    /\ last.op = "remove_server"
    /\ last.arg = [alias |-> <<"A">>, server_id |-> <<"q">>]
    /\ last.exc = "none"
    /\ Len(registry) > 0

\* C8: remove_server with an alias or an id that is a key of the static partition, and
\* neither a key of the dynamic partition, returns normally and changes nothing.
RemoveOfStaticIsNoOp ==
    [][(/\ last'.op = "remove_server"
        /\ \/ DictHas(config_mcp_servers, last'.arg.alias)
           \/ DictHas(config_mcp_servers, last'.arg.server_id)
        /\ ~DictHas(registry, last'.arg.alias)
        /\ ~DictHas(registry, last'.arg.server_id))
       => (last'.exc = "none" /\ UNCHANGED store)]_vars

----------------------------------------------------------------------------
(* Catalog aggregator: properties *)

\* the records of the union
Servers == Range(DictValues(get_registry))

\* the catalog entries one logged upstream operation contributes
Contribution(e) ==
    IF e.outcome.status = "ok"
    THEN [i \in 1..Len(e.outcome.tools) |-> e.server.name \o <<SEP>> \o e.outcome.tools[i]]
    ELSE <<>>

\* the contributions of a whole log, in its order
Contributions(log) == Flatten([k \in 1..Len(log) |-> Contribution(log[k])])

\* C1: list_tools returns normally with exactly the tools of the upstreams that did not
\* fail; a failed upstream adds nothing and the loop goes on to the next id that
\* resolves.
ListingIsolation ==
    /\ [](list_task.pc = "returned" =>
            /\ list_task.i = Len(list_task.allowed) + 1
            /\ Len(list_task.log) = Len(list_task.contacted)
            /\ Len(list_task.result) = Len(Contributions(list_task.log))
            /\ Range(list_task.result) = Range(Contributions(list_task.log)))
    /\ [][(/\ last'.op = "list_tools_next"
           /\ list_task.log[Len(list_task.log)].outcome.status # "ok")
          => LET j == NextResolved(list_task.allowed, list_task.i + 1)
             IN  /\ list_task'.result = list_task.result
                 /\ list_task'.i = j
                 /\ list_task'.pc = IF j <= Len(list_task.allowed) THEN "listing"
                                    ELSE "returned"]_vars

\* C1 witness: a listing returned a non-empty catalog after its first upstream failed
ListedPastFailure ==
    /\ list_task.pc = "returned"
    /\ Len(list_task.log) = 2
    /\ list_task.log[1].outcome.status = "connect_error"
    /\ list_task.log[2].outcome.status = "ok"
    /\ list_task.result = Contribution(list_task.log[2])
    /\ Len(list_task.result) > 0

\* C9: the allow-list is the oracle's list, or every id of the union when that list is
\* empty; the loop contacts the ids of the allow-list that resolve when their turn
\* comes, skips the others, and nothing else is contacted or contributes a tool.
EffectiveAllowList ==
    /\ [][last'.op = "list_tools" =>
            list_task'.allowed = IF Len(last'.arg) > 0 THEN last'.arg
                                 ELSE DictKeys(get_registry)]_vars
    /\ [][last'.op \in {"list_tools", "list_tools_next"} =>
            LET al == list_task'.allowed
                from == IF last'.op = "list_tools" THEN 1 ELSE list_task.i + 1
                before == IF last'.op = "list_tools" THEN <<>> ELSE list_task.contacted
                to == list_task'.i
            IN  /\ \A j \in from..(to - 1) : \A srv \in Servers : srv.server_id # al[j]
                /\ IF to <= Len(al)
                   THEN /\ list_task'.pc = "listing"
                        /\ list_task'.server \in Servers
                        /\ list_task'.server.server_id = al[to]
                        /\ list_task'.contacted = Append(before, al[to])
                   ELSE /\ list_task'.pc = "returned"
                        /\ list_task'.contacted = before]_vars
    /\ [](/\ \A k \in 1..Len(list_task.log) :
                list_task.log[k].server.server_id = list_task.allowed[list_task.log[k].pos]
          /\ Range(list_task.result) \subseteq Range(Contributions(list_task.log)))

\* C9 witness: the oracle named an id that did not resolve and the static upstream a;
\* only a was contacted although the union holds the static upstream b too
ListedOnlyAllowed ==
    /\ list_task.pc = "returned"
    /\ list_task.oracle = <<IdX, IdA>>
    /\ list_task.contacted = <<IdA>>
    /\ Len(list_task.log) = 1
    /\ Len(config_mcp_servers) = 2
    /\ registry = <<>>

\* C10: the catalog is the concatenation of the per-upstream results in allow-list
\* order, each in the order the upstream reported.
CatalogOrder ==
    list_task.pc = "returned" =>
        /\ list_task.result = Contributions(list_task.log)
        /\ \A k \in 1..Len(list_task.log) :
              list_task.log[k].server.server_id = list_task.allowed[list_task.log[k].pos]
        /\ \A k, l \in 1..Len(list_task.log) :
              k < l => list_task.log[k].pos < list_task.log[l].pos

\* C10 witness: the allow-list names the dynamic upstream before the static one, which
\* is the other way round in the union, and the catalog follows the allow-list
ListedInAllowListOrder ==
    /\ list_task.pc = "returned"
    /\ list_task.oracle = <<IdX, IdA>>
    /\ list_task.result = <<<<"A", ".", "b", ".", "s">>, <<"a", ".", "r">>, <<"a", ".", "s">>>>
    /\ DictKeys(get_registry)[1] = IdA

----------------------------------------------------------------------------
(* Call router: properties *)

\* the index entry the listing of srv writes for its tool r is in place
Indexed(srv, r) ==
    LET q == srv.name \o <<SEP>> \o r
    IN  /\ q \in DOMAIN tool_name_to_mcp_server_name_mapping
        /\ tool_name_to_mcp_server_name_mapping[q] = srv.name

\* srv reported r in a listing
Owns(srv, r) == r \in Range(ToolsOf(srv)) /\ Indexed(srv, r)

\* the position of srv in the union
PositionOf(srv) == CHOOSE i \in 1..Len(get_registry) : get_registry[i].v = srv

\* srv is the first record of the union with its normalized alias
FirstOfItsAlias(srv) ==
    \A other \in Servers :
        normalize_server_name(other.name) = normalize_server_name(srv.name)
            => PositionOf(srv) <= PositionOf(other)

\* the steps of the call_tool coroutine, as last.op names them
CallSteps ==
    {"call_tool", "call_tool_connect", "call_tool_receive", "call_tool_return",
     "call_tool_cancel", "call_tool_cancelled"}

\* the callTool a call_tool that has just resolved its name is about to send: the
\* upstream it connects to and the name it will pass; nothing when it raised
Routed ==
    IF last.exc = "none" /\ call_task.pc = "connecting"
    THEN <<[server |-> call_task.server, name |-> call_task.name]>>
    ELSE NoCall

\* C2 as claimed: the upstream with alias A reported r; route(compose(r, A)) dispatches
\* one callTool with r on a handle for that upstream.
RouteByQualifiedName ==
    last.op = "call_tool" =>
        \A srv \in Servers : \A r \in Range(ToolsOf(srv)) :
            (Owns(srv, r) /\ last.arg = srv.name \o <<SEP>> \o r)
                => (last.exc = "none" /\ Routed = <<[server |-> srv, name |-> r]>>)

\* C2 as amended: while the index entry of compose(r, A) names A, route(compose(r, A))
\* connects to the first record of the union whose normalized alias is that of A and,
\* once connected, sends it one callTool with the raw name r, and sends nothing else.
RouteByQualifiedNameToFirstOfAlias ==
    /\ [](last.op = "call_tool" =>
            \A srv \in Servers : \A r \in Range(ToolsOf(srv)) :
                (/\ Owns(srv, r)
                 /\ ~is_tool_name_prefixed(srv.name)
                 /\ last.arg = srv.name \o <<SEP>> \o r)
                    => /\ last.exc = "none"
                       /\ Len(Routed) = 1
                       /\ Routed[1].name = r
                       /\ Routed[1].server \in Servers
                       /\ normalize_server_name(Routed[1].server.name)
                             = normalize_server_name(srv.name)
                       /\ FirstOfItsAlias(Routed[1].server))
    /\ [][last'.op \in CallSteps =>
            /\ last'.calls =
                  IF last'.op = "call_tool_connect" /\ last'.arg = "ok"
                  THEN <<[server |-> call_task.server,
                          name |-> get_server_name_prefix_tool_mcp(call_task.given)[1]]>>
                  ELSE NoCall
            /\ last'.op \in {"call_tool_return", "call_tool_cancelled"} =>
                  last'.sent =
                      <<[server |-> call_task.server,
                         name |-> get_server_name_prefix_tool_mcp(call_task.given)[1]]>>]_vars

\* C2 witness: "a.s" was routed to a with the raw name s while b reports s too
RoutedQualified ==
    /\ last.op = "call_tool_connect"
    /\ last.given = <<"a", ".", "s">>
    /\ Len(last.calls) = 1
    /\ last.calls[1].name = <<"s">>
    /\ last.calls[1].server.server_id = IdA
    /\ \E srv \in Servers : srv.name = <<"b">> /\ Owns(srv, <<"s">>)
    /\ \E srv \in Servers : srv.name = <<"a">> /\ Owns(srv, <<"s">>)

\* C3: r is owned by the upstream A alone and B is another upstream of the union;
\* route(compose(r, B)) fails with PrefixMismatch and dispatches nothing.
PrefixSpoofRejected ==
    last.op = "call_tool" =>
        \A owner \in Servers, other \in Servers : \A r \in RawNames :
            (/\ owner # other
             /\ Owns(owner, r)
             /\ \A srv \in Servers \ {owner} : ~Owns(srv, r)
             /\ last.arg = other.name \o <<SEP>> \o r)
                => (last.exc = "PrefixMismatch" /\ Routed = NoCall)

----------------------------------------------------------------------------
(* Fan-out and cancellation: properties *)

\* the next id of the allow-list, after the one being listed, that resolves now
LaterResolved == NextResolved(list_task.allowed, list_task.i + 1)

\* C11: while the list operation of one upstream is in flight and a later id of the
\* allow-list resolves, the operation of the later upstream can start: some step of
\* the manager connects to it although the earlier operation has not completed.
FanOutIsConcurrent ==
    (/\ list_task.pc = "listing"
     /\ LaterResolved <= Len(list_task.allowed)
     /\ list_task.allowed[LaterResolved] # list_task.server.server_id)
        => ENABLED (/\ Next
                    /\ list_task'.log = list_task.log
                    /\ list_task'.contacted =
                           Append(list_task.contacted, list_task.allowed[LaterResolved]))

\* what a listing has collected
listed == <<list_task.contacted, list_task.log, list_task.result>>

\* C12: a cancellation that reaches list_tools while an upstream operation is in
\* flight is raised to the caller as CancelledError: the operation adds no result and
\* no error for its upstream, the call never returns a catalog, and no later upstream
\* is contacted; only a new list_tools call leaves the cancelled state.
CancellationPropagates ==
    /\ [][last'.op = "list_tools_cancel" =>
            /\ list_task.pc \in {"listing", "disconnect"}
            /\ list_task'.pc = IF list_task.pc = "listing" THEN "cancelling"
                               ELSE "cancelled"
            /\ list_task'.pc = "cancelled" => last'.exc = "CancelledError"
            /\ UNCHANGED <<listed, tool_name_to_mcp_server_name_mapping>>]_vars
    /\ [][list_task.pc \in {"cancelling", "cancel_disconnect", "cancelled"} =>
            \/ /\ last'.op = "list_tools"
               /\ list_task.pc = "cancelled"
            \/ /\ UNCHANGED listed
               /\ list_task'.pc \in {"cancel_disconnect", "cancelled"}
               /\ list_task'.pc = "cancel_disconnect" => list_task.pc = "cancelling"
               /\ (list_task'.pc = "cancelled" /\ list_task.pc # "cancelled") =>
                     (last'.op = "list_tools_cancelled" /\ last'.exc = "CancelledError")
            \/ UNCHANGED list_task]_vars

\* C12 witness: the listing was cancelled while its first upstream was in flight and
\* a later id of the allow-list resolves; the later upstream was never contacted
CancelledInFlight ==
    /\ list_task.pc = "cancelled"
    /\ last.op = "list_tools_cancelled"
    /\ last.exc = "CancelledError"
    /\ Len(list_task.contacted) = 1
    /\ list_task.log = <<>>
    /\ LaterResolved <= Len(list_task.allowed)

----------------------------------------------------------------------------
(* Client handles: properties *)

\* the handles of the coroutines that are at an await of `async with client`
InFlightClients ==
    (IF list_task.pc \in {"listing", "cancelling"}
     THEN {MCPClient("list_tools", list_task.server)} ELSE {})
    \cup (IF single_task.pc = "listing"
          THEN {MCPClient("get_tools_for_server", single_task.server)} ELSE {})
    \cup (IF warmup_task.pc = "listing"
          THEN {MCPClient("warmup", warmup_task.server)} ELSE {})
    \cup (IF call_task.pc \in {"connecting", "calling", "disconnect", "cancelling"}
          THEN {MCPClient("call_tool", call_task.server)} ELSE {})

\* no coroutine is inside an upstream operation: none is at an await of
\* _get_tools_from_server or of call_tool
Quiescent ==
    /\ list_task.pc \in {"idle", "returned", "cancelled"}
    /\ single_task.pc \in {"idle", "returned"}
    /\ warmup_task.pc \in {"none", "created"}
    /\ call_task.pc = "idle"

\* the coroutine whose upstream operation the step op ends, however it ends
EndsOperation(op, exc) ==
    IF op \in {"list_tools_receive", "list_tools_cancelled"} THEN {"list_tools"}
    ELSE IF op = "get_tools_for_server_receive" THEN {"get_tools_for_server"}
    ELSE IF op = "warmup_receive" THEN {"warmup"}
    ELSE IF op \in {"call_tool_return", "call_tool_cancelled"} THEN {"call_tool"}
    ELSE IF op = "call_tool_cancel" /\ exc = "CancelledError" THEN {"call_tool"}
    ELSE IF op = "call_tool_connect" /\ exc = "ConnectionError" THEN {"call_tool"}
    ELSE {}

\* the coroutine that takes the step op
CoroutineOf(op) ==
    IF op \in {"list_tools", "list_tools_next"} THEN "list_tools"
    ELSE IF op \in {"warmup_start", "warmup_next"} THEN "warmup"
    ELSE op

\* C13: the handles held are handles of operations in flight, one each, and none is
\* held when no operation is in flight; a step that starts an operation builds a
\* handle of its own, a step that ends one (result, fault, cancellation) leaves no
\* handle of that operation, and a call that fails with ToolNotFound or
\* PrefixMismatch holds none.
NoLeakedHandles ==
    /\ [](/\ clients \subseteq InFlightClients
          /\ Quiescent => clients = {}
          /\ \A c, d \in clients : c.op = d.op => c = d)
    /\ [][/\ \A c \in clients' \ clients : c.op = CoroutineOf(last'.op)
          /\ AbandonedClients(clients') = {}
          /\ Cardinality(clients' \ clients) <= 1
          /\ \A c \in clients' : c.op \notin EndsOperation(last'.op, last'.exc)
          /\ (last'.op = "call_tool" /\ last'.exc # "none") => clients' = clients]_vars

----------------------------------------------------------------------------
(* Single-upstream listing: properties *)

\* C14: get_tools_for_server of an id that resolves raises the transport fault of
\* connect or listTools; it returns [] without an error only for an id that does not
\* resolve or an upstream that reports no tools.
SingleListingSurfacesFaults ==
    single_task.pc = "returned" =>
        /\ single_task.outcome.status \in {"connect_error", "list_error"}
              => single_task.exc # "none"
        /\ (single_task.exc = "none" /\ single_task.result = <<>>)
              => \/ single_task.server = NoServer
                 \/ (single_task.outcome.status = "ok" /\ single_task.outcome.tools = <<>>)

----------------------------------------------------------------------------
(* Catalog names: properties *)

\* no element twice
NoDuplicates(seq) == \A i, j \in 1..Len(seq) : i # j => seq[i] # seq[j]

\* C16: the catalog one list_tools call returns over an allow-list of distinct ids
\* holds no qualified name twice.
QualifiedNamesUnique ==
    (list_task.pc = "returned" /\ NoDuplicates(list_task.allowed))
        => NoDuplicates(list_task.result)

----------------------------------------------------------------------------
(* Configuration and identity: properties *)

\* C15: after load_servers_from_config of several entries of which one has an invalid
\* alias, every valid entry of the call, before or after the invalid one, is in the
\* static partition.
InvalidEntryRejectedAlone ==
    [][last'.op = "load_servers_from_config" =>
        \A i \in 1..Len(last'.arg) :
            validate_mcp_server_name(last'.arg[i].server_name)
                => DictHas(config_mcp_servers', ConfigId(last'.arg[i]))]_vars

\* the id the identity generator derives from the fields of the record v
DerivedId(v) ==
    _generate_stable_server_id(v.name, v.url, v.transport, v.spec_version, v.auth_type)

\* C18 as claimed: every record of the union, static or dynamic, is stored under its
\* id, and that id is the one derived from its own fields.
IdsDerivedFromFields ==
    \A i \in 1..Len(get_registry) :
        /\ get_registry[i].k = get_registry[i].v.server_id
        /\ get_registry[i].v.server_id = DerivedId(get_registry[i].v)

\* the records of the static partition that differ from v in auth_type alone
AuthTwins(v) ==
    {w \in Range(DictValues(config_mcp_servers)) :
        /\ w.auth_type # v.auth_type
        /\ [w EXCEPT !.auth_type = v.auth_type, !.server_id = v.server_id] = v}

\* C18 as amended: every record of either partition and of the union is stored under
\* its id; the id of a static record is the one derived from its own fields, the id of
\* a dynamic record is the id of the row it was added from; static records stay, so
\* two entries that differ in auth_type alone are held under two ids, both in the
\* union.
StaticIdsDerivedFromFields ==
    /\ [](/\ \A i \in 1..Len(get_registry) :
                get_registry[i].k = get_registry[i].v.server_id
          /\ \A i \in 1..Len(registry) : registry[i].k = registry[i].v.server_id
          /\ \A i \in 1..Len(config_mcp_servers) :
                /\ config_mcp_servers[i].k = config_mcp_servers[i].v.server_id
                /\ config_mcp_servers[i].k = DerivedId(config_mcp_servers[i].v)
                /\ DictHas(get_registry, config_mcp_servers[i].k)
                /\ \A w \in AuthTwins(config_mcp_servers[i].v) :
                      w.server_id # config_mcp_servers[i].k)
    /\ [][/\ \A i \in 1..Len(config_mcp_servers) :
                DictHas(config_mcp_servers', config_mcp_servers[i].k)
          /\ (last'.op = "load_servers_from_config" /\ last'.exc = "none") =>
                \A i \in 1..Len(last'.arg) :
                    DictHas(config_mcp_servers', ConfigId(last'.arg[i]))
          /\ (last'.op = "add_update_server" /\ registry' # registry) =>
                /\ DictHas(registry', last'.arg.server_id)
                /\ DictGet(registry', last'.arg.server_id).server_id
                      = last'.arg.server_id]_vars

\* C18 witness: the entry a was loaded without and with an auth_type; the two records
\* are in the union under two ids, next to a dynamic record whose id is not derived
StaticTwinsAndDynamic ==
    /\ \E v \in Range(DictValues(config_mcp_servers)) :
          /\ v.auth_type = NoneVal
          /\ AuthTwins(v) # {}
          /\ \A w \in AuthTwins(v) : w \in Servers /\ w.server_id # v.server_id
          /\ v \in Servers
    /\ \E w \in Range(DictValues(registry)) : w.server_id # DerivedId(w)

----------------------------------------------------------------------------
(* Reverse index: properties *)

\* the raw and the prefixed names of the tools the upstreams of a log reported
ReportedNames(log) ==
    UNION {Range(log[k].outcome.tools) \cup Range(Contribution(log[k])) : k \in 1..Len(log)}

\* the aliases of the upstreams of a log that reported the name n
ReportersOf(log, n) ==
    {log[k].server.name : k \in {j \in 1..Len(log) :
        n \in Range(log[j].outcome.tools) \cup Range(Contribution(log[j]))}}

\* C17: when a list_tools pass over every id of the union has returned, the index
\* holds only raw and prefixed names of tools reported in that pass, each pointing at
\* an upstream that reported it in that pass.
IndexRebuiltByFullPass ==
    (list_task.pc = "returned" /\ list_task.oracle = <<>>) =>
        \A n \in DOMAIN tool_name_to_mcp_server_name_mapping :
            /\ n \in ReportedNames(list_task.log)
            /\ tool_name_to_mcp_server_name_mapping[n] \in ReportersOf(list_task.log, n)

\* the index holds an entry for name and a record of the union carries, up to
\* normalization, the alias the entry names
LiveEntry(name) ==
    /\ name \in DOMAIN tool_name_to_mcp_server_name_mapping
    /\ \E srv \in Servers :
          normalize_server_name(srv.name)
              = normalize_server_name(tool_name_to_mcp_server_name_mapping[name])

\* the index holds an entry for name that names an alias no record of the union has
StaleEntry(name) ==
    name \in DOMAIN tool_name_to_mcp_server_name_mapping /\ ~LiveEntry(name)

\* what call_tool(name) does when the index holds no entry for name: the call goes
\* to the first record named by the prefix of name, or fails with ToolNotFound
RoutedByPrefix(name) ==
    LET byPrefix == IF is_tool_name_prefixed(name)
                    THEN FirstServerNamed(get_server_name_prefix_tool_mcp(name)[2])
                    ELSE NoServer
    IN  IF byPrefix = NoServer THEN [exc |-> "ToolNotFound", calls |-> NoCall]
        ELSE [exc |-> "none",
              calls |-> <<[server |-> byPrefix,
                           name |-> get_server_name_prefix_tool_mcp(name)[1]]>>]

\* what C19 says of the resolution of call_tool: the record it resolves to is a record
\* of the union, it ends in no error other than ToolNotFound or PrefixMismatch, and a
\* name whose index entry names an alias no record of the union has is resolved as a
\* name without an entry is
ResolvedAsMiss ==
    last.op = "call_tool" =>
        /\ \A k \in 1..Len(Routed) : Routed[k].server \in Servers
        /\ last.exc \in {"none", "ToolNotFound", "PrefixMismatch"}
        /\ StaleEntry(last.arg) =>
              [exc |-> last.exc, calls |-> Routed] = RoutedByPrefix(last.arg)

\* C19 as claimed: stale index entries are misses, and no callTool is ever sent to an
\* upstream that is not a record of the union at the moment it is sent.
NeverDispatchedOutsideUnion ==
    /\ ResolvedAsMiss
    /\ last.op = "call_tool_connect" =>
          \A k \in 1..Len(last.calls) : last.calls[k].server \in Servers

\* C19 as amended: call_tool resolves its name to a record of the union of the moment
\* it resolves, with no error other than ToolNotFound or PrefixMismatch, and treats an
\* index entry whose alias no record of the union has as an absent entry; the callTool
\* goes, when the connect returns, to the record resolved, and that record can have
\* left the union by then only through a remove_server or a load_servers_from_config
\* that ran while the connect was pending.
StaleEntriesAreMisses ==
    /\ []ResolvedAsMiss
    /\ [][last'.op = "call_tool_connect" =>
            \A k \in 1..Len(last'.calls) : last'.calls[k].server = call_task.server]_vars
    /\ [][(/\ call_task.pc = "connecting"
            /\ call_task.server \in Servers
            /\ call_task.server \notin Servers')
              => last'.op \in {"remove_server", "load_servers_from_config"}]_vars

\* C19 witness: the upstream A that reported "b.s" was removed; call_tool("b.s") met
\* the stale entry and went on to the prefix, reaching the static upstream b
StaleEntryRoutedByPrefix ==
    /\ last.op = "call_tool"
    /\ last.arg = <<"b", ".", "s">>
    /\ StaleEntry(last.arg)
    /\ tool_name_to_mcp_server_name_mapping[last.arg] = <<"A">>
    /\ Len(Routed) = 1
    /\ Routed[1].server.name = <<"b">>
    /\ Routed[1].name = <<"s">>

----------------------------------------------------------------------------
(* Warm-up: properties *)

WarmupSteps == {"warmup_start", "warmup_receive", "warmup_next"}

\* C20: load_servers_from_config returns with the warm-up at most created (nothing
\* contacted, nothing written), and creates none without a running loop; the task
\* takes the records of the union when it starts and visits them one after the other
\* whatever each upstream answers; no step of it raises; it changes neither partition
\* and removes no index entry, and every entry it writes names the upstream visited.
WarmupDetachedAndSilent ==
    /\ [][last'.op = "load_servers_from_config" =>
            /\ UNCHANGED <<tool_name_to_mcp_server_name_mapping, clients>>
            /\ warmup_task' = IF last'.loop /\ last'.exc = "none" THEN NewWarmup
                              ELSE warmup_task
            /\ ~last'.loop => UNCHANGED <<warmup_task, registry, list_task>>]_vars
    /\ [][last'.op = "warmup_start" =>
            /\ warmup_task'.servers = DictValues(get_registry)
            /\ IF warmup_task'.servers = <<>> THEN warmup_task' = IdleWarmup
               ELSE /\ warmup_task'.pc = "listing"
                    /\ warmup_task'.i = 1
                    /\ warmup_task'.server = warmup_task'.servers[1]]_vars
    /\ [][last'.op = "warmup_receive" =>
            /\ warmup_task'.pc = "disconnect"
            /\ warmup_task'.i = warmup_task.i
            /\ warmup_task'.servers = warmup_task.servers]_vars
    /\ [][last'.op = "warmup_next" =>
            IF warmup_task.i = Len(warmup_task.servers) THEN warmup_task' = IdleWarmup
            ELSE /\ warmup_task'.pc = "listing"
                 /\ warmup_task'.i = warmup_task.i + 1
                 /\ warmup_task'.servers = warmup_task.servers
                 /\ warmup_task'.server = warmup_task.servers[warmup_task.i + 1]]_vars
    /\ [][last'.op \in WarmupSteps =>
            /\ last'.exc = "none"
            /\ UNCHANGED <<config_mcp_servers, registry, list_task, single_task, call_task>>
            /\ \A n \in DOMAIN tool_name_to_mcp_server_name_mapping :
                  /\ n \in DOMAIN tool_name_to_mcp_server_name_mapping'
                  /\ \/ tool_name_to_mcp_server_name_mapping'[n]
                           = tool_name_to_mcp_server_name_mapping[n]
                     \/ tool_name_to_mcp_server_name_mapping'[n] = warmup_task.server.name
            /\ \A n \in (DOMAIN tool_name_to_mcp_server_name_mapping')
                          \ (DOMAIN tool_name_to_mcp_server_name_mapping) :
                  tool_name_to_mcp_server_name_mapping'[n] = warmup_task.server.name]_vars

\* C20 witness: the warm-up of a union of two records got the tools of the second
\* although the first had failed: the index holds the names of the second alone
WarmedPastFailure ==
    /\ last.op = "warmup_receive"
    /\ last.arg.status = "ok"
    /\ Len(warmup_task.servers) = 2
    /\ warmup_task.i = 2
    /\ warmup_task.server.name = <<"A">>
    /\ DOMAIN tool_name_to_mcp_server_name_mapping
          = {<<"b", ".", "s">>, <<"A", ".", "b", ".", "s">>}

----------------------------------------------------------------------------
(* Reverse index under interleaving: properties *)

\* the names lines 346-347 write for the tools an upstream reported
WrittenNames(tools, server) == Range(tools) \cup Range(PrefixedTools(tools, server))

\* every step that changes the index is the end of one listing of one upstream, or the
\* warm-up's pass over what that listing returned, and leaves the raw and the prefixed
\* name of every tool of that result pointing at that upstream
IndexWritesAreWhole ==
    [][tool_name_to_mcp_server_name_mapping' # tool_name_to_mcp_server_name_mapping =>
          \/ /\ last'.op = "list_tools_receive"
             /\ \A n \in WrittenNames(last'.arg.tools, list_task.server) :
                   /\ n \in DOMAIN tool_name_to_mcp_server_name_mapping'
                   /\ tool_name_to_mcp_server_name_mapping'[n] = list_task.server.name
          \/ /\ last'.op = "warmup_receive"
             /\ \A n \in WrittenNames(last'.arg.tools, warmup_task.server) :
                   /\ n \in DOMAIN tool_name_to_mcp_server_name_mapping'
                   /\ tool_name_to_mcp_server_name_mapping'[n] = warmup_task.server.name
          \/ /\ last'.op = "warmup_next"
             /\ \A n \in Range(warmup_task.got) \cup
                        {get_server_name_prefix_tool_mcp(g)[1] : g \in Range(warmup_task.got)} :
                   /\ n \in DOMAIN tool_name_to_mcp_server_name_mapping'
                   /\ tool_name_to_mcp_server_name_mapping'[n] = warmup_task.server.name
    ]_vars

\* no list_tools and no warm-up is between two of its suspension points
ListingsFinished ==
    /\ list_task.pc \in {"idle", "returned"}
    /\ warmup_task.pc = "none"

\* C21: once every listing has finished, every prefixed name an upstream reported in
\* the list_tools pass that returned points, in the index, at the name of that upstream.
\* (That index writes are whole, the other half of the claim, is IndexWritesAreWhole.)
ReportedQualifiedNamesKept ==
    (ListingsFinished /\ list_task.pc = "returned") =>
        \A k \in 1..Len(list_task.log) :
            \A n \in Range(Contribution(list_task.log[k])) :
                /\ n \in DOMAIN tool_name_to_mcp_server_name_mapping
                /\ tool_name_to_mcp_server_name_mapping[n] = list_task.log[k].server.name

----------------------------------------------------------------------------
(* Call router and authorization: properties *)

\* C22: from one state (the same registry, the same index), call_tool of one name
\* resolves for every authorization context as it does for the context whose oracle
\* returns nothing, and every call_tool step does what that resolution says: the
\* same error, or the connect to the same upstream; and what a call then sends is
\* fixed by that upstream, the name given and how the upstream answers, whoever the
\* caller is.
RouteIgnoresAuthorization ==
    /\ [](\A name \in AuthRouteNames, user_api_key_auth \in RouteAuths :
            call_tool_resolve(name, user_api_key_auth) = call_tool_resolve(name, <<>>))
    /\ [][last'.op = "call_tool" =>
            /\ last'.exc = call_tool_resolve(last'.arg, <<>>).exc
            /\ IF last'.exc = "none"
               THEN /\ call_task'.pc = "connecting"
                    /\ call_task'.server = call_tool_resolve(last'.arg, <<>>).server
                    /\ call_task'.name = call_tool_resolve(last'.arg, <<>>).name
               ELSE call_task' = call_task]_vars
    /\ [][last'.op \in {"call_tool_connect", "call_tool_receive", "call_tool_return"} =>
            /\ last'.calls =
                  IF last'.op = "call_tool_connect" /\ last'.arg = "ok"
                  THEN <<[server |-> call_task.server,
                          name |-> get_server_name_prefix_tool_mcp(call_task.given)[1]]>>
                  ELSE NoCall
            /\ last'.exc =
                  IF last'.op = "call_tool_connect" /\ last'.arg = "connect_error"
                  THEN "ConnectionError"
                  ELSE IF last'.op = "call_tool_return" /\ last'.arg = "call_error"
                  THEN "UpstreamProtocolError"
                  ELSE "none"]_vars

\* C22 witness: a caller whose allow-list is x alone, x being registered, had its
\* callTool sent to the static upstream a
DispatchedOutsideAllowList ==
    /\ last.op = "call_tool_connect"
    /\ last.user_api_key_auth = <<IdX>>
    /\ Len(last.calls) = 1
    /\ last.calls[1].server.server_id = IdA
    /\ last.calls[1].server.server_id \notin Range(get_allowed_mcp_servers(last.user_api_key_auth))
    /\ DictHas(get_registry, IdX)

====
